---- MODULE Spec2Model ----
(***************************************************************************)
(* Model of the Mouser MCP server: the dual-key API client (client.py),    *)
(* the eight domain operations (api/search.py, api/cart.py, api/order.py,  *)
(* api/order_history.py) and the process environment they are configured   *)
(* from.  The operations have no await inside them, so under the event     *)
(* loop each invocation runs from validation to its return as one step.    *)
(* The health check and the status resource (server.py) read the           *)
(* configuration.  For callers that overlap, the client's methods are also *)
(* given statement by statement: SpecCooperative suspends a call at its    *)
(* network call only, SpecThreads preempts it between any two statements,  *)
(* SpecSteps runs one call after another.                                  *)
(*                                                                         *)
(* Python strings that the code inspects character by character (required  *)
(* arguments, endpoint paths) are sequences of one-character strings.      *)
(* Values the code only compares or passes on (API keys, messages, base    *)
(* URLs) are TLA+ strings.                                                 *)
(***************************************************************************)
EXTENDS Integers, Sequences, FiniteSets, TLC

VARIABLES
    environ,          \* os.environ restricted to the MOUSER_* variables
    client_instance,  \* client._client_instance: None or the APIClient
    call_count,       \* requests handed to the transport since process start
    invocation,       \* the most recent invocation: operation and arguments
    sent,             \* the requests that invocation handed to the transport,
                      \* each with the upstream's answer
    result,           \* how that invocation ended: return value or exception
    tasks             \* the calls of the client in progress: for each task its
                      \* position in the client method and what it holds

vars == <<environ, client_instance, call_count, invocation, sent, result, tasks>>

None == [none |-> TRUE]

\* the tasks that can be inside a method of the client at the same time
Tasks == {"task-1", "task-2"}

\* a task that is in no call
Idle == [pc |-> "idle"]

-----------------------------------------------------------------------------
(* Bounds of the model *)

\* longest argument string drawn for a required string argument
MaxLen == 2
\* the transport accepts this many requests, then the model stops dispatching
MaxCalls == 2
\* numeric arguments are drawn this far beyond each validation threshold
Margin == 2

-----------------------------------------------------------------------------
(* Strings *)

Whitespace == {" "}
Alphabet == {"a", " "}

RECURSIVE StrsOfLen(_)
StrsOfLen(n) ==
    IF n = 0 THEN {<<>>}
    ELSE {Append(s, c) : s \in StrsOfLen(n - 1), c \in Alphabet}

Strs == UNION {StrsOfLen(n) : n \in 0..MaxLen}

\* str.lstrip(chars)
RECURSIVE lstrip(_, _)
lstrip(s, chars) ==
    IF s # <<>> /\ Head(s) \in chars THEN lstrip(Tail(s), chars) ELSE s

\* str.rstrip(chars)
RECURSIVE rstrip(_, _)
rstrip(s, chars) ==
    IF s # <<>> /\ s[Len(s)] \in chars
    THEN rstrip(SubSeq(s, 1, Len(s) - 1), chars)
    ELSE s

\* as strip, with nothing removed: the test `not s` in place of `not s.strip()`
strip_nothing(s) == s

\* str.strip(): whitespace removed from both ends
strip(s) == rstrip(lstrip(s, Whitespace), Whitespace)

\* Python's `needle in haystack` on strings
Contains(needle, haystack) ==
    \E i \in 1..(Len(haystack) - Len(needle) + 1) :
        SubSeq(haystack, i, i + Len(needle) - 1) = needle

\* truthiness of a Python str: bool(s), `if s:`
Truthy(s) == s # ""

-----------------------------------------------------------------------------
(* Configuration: client.get_client_config *)

EnvNames ==
    {"MOUSER_PART_API_KEY", "MOUSER_ORDER_API_KEY", "MOUSER_API_BASE_URL",
     "MOUSER_API_TIMEOUT", "MOUSER_DEBUG"}

\* the values the model sets each variable to; a variable may also be unset
EnvValues ==
    [MOUSER_PART_API_KEY |-> {"part-key"},
     MOUSER_ORDER_API_KEY |-> {"order-key"},
     MOUSER_API_BASE_URL |-> {"https://sandbox.example/api"},
     MOUSER_API_TIMEOUT |-> {"5"},
     MOUSER_DEBUG |-> {}]

\* the environments the process can be in: each variable unset or set
Environs ==
    {e \in UNION {[names -> UNION {EnvValues[n] : n \in names}] :
                    names \in SUBSET EnvNames} :
        \A n \in DOMAIN e : e[n] \in EnvValues[n]}

\* os.getenv(name, default)
getenv(name, default) ==
    IF name \in DOMAIN environ THEN environ[name] ELSE default

\* int(str) on the decimal strings the environment holds
int(s) == CASE s = "30" -> 30 [] s = "5" -> 5

\* str.lower() on the strings MOUSER_DEBUG holds
lower(s) == CASE s = "True" -> "true" [] s = "TRUE" -> "true" [] OTHER -> s

get_client_config ==
    [part_api_key |-> getenv("MOUSER_PART_API_KEY", ""),
     order_api_key |-> getenv("MOUSER_ORDER_API_KEY", ""),
     api_base_url |-> getenv("MOUSER_API_BASE_URL", "https://api.mouser.com/api/v1"),
     timeout |-> int(getenv("MOUSER_API_TIMEOUT", "30")),
     debug |-> lower(getenv("MOUSER_DEBUG", "false")) = "true"]

-----------------------------------------------------------------------------
(* APIClient *)

\* dict.pop(key, None)
pop(d, key) == [k \in DOMAIN d \ {key} |-> d[k]]

\* d[key] = value
setitem(d, key, value) ==
    [k \in DOMAIN d \cup {key} |-> IF k = key THEN value ELSE d[k]]

\* APIClient.__init__: session.headers is kept as the field headers
APIClient(part_api_key, order_api_key, base_url, timeout, debug) ==
    [base_url |-> base_url,
     timeout |-> timeout,
     part_api_key |-> part_api_key,
     order_api_key |-> order_api_key,
     debug |-> debug,
     headers |-> setitem(<<>>, "Content-Type", "application/json")]

\* the test of APIClient._set_api_key_header: `"/search/" in endpoint`
IsSearchEndpoint(endpoint) ==
    Contains(<<"/", "s", "e", "a", "r", "c", "h", "/">>, endpoint)

\* as set_api_key_header, with the search key header left on the session
set_api_key_header_stale(self, endpoint) ==
    LET cleared == pop(self.headers, "OrderApi-Key")
    IN  IF IsSearchEndpoint(endpoint)
        THEN IF Truthy(self.part_api_key)
             THEN setitem(cleared, "SearchApi-Key", self.part_api_key)
             ELSE cleared
        ELSE IF Truthy(self.order_api_key)
             THEN setitem(cleared, "OrderApi-Key", self.order_api_key)
             ELSE cleared

\* as set_api_key_header, without clearing the key headers first
set_api_key_header_uncleared(self, endpoint) ==
    IF IsSearchEndpoint(endpoint)
    THEN IF Truthy(self.part_api_key)
         THEN setitem(self.headers, "SearchApi-Key", self.part_api_key)
         ELSE self.headers
    ELSE IF Truthy(self.order_api_key)
         THEN setitem(self.headers, "OrderApi-Key", self.order_api_key)
         ELSE self.headers

\* APIClient._set_api_key_header: the session headers after the call
set_api_key_header(self, endpoint) ==
    LET cleared == pop(pop(self.headers, "SearchApi-Key"), "OrderApi-Key")
    IN  IF IsSearchEndpoint(endpoint)
        THEN IF Truthy(self.part_api_key)
             THEN setitem(cleared, "SearchApi-Key", self.part_api_key)
             ELSE cleared
        ELSE IF Truthy(self.order_api_key)
             THEN setitem(cleared, "OrderApi-Key", self.order_api_key)
             ELSE cleared

\* f"{self.base_url}/{endpoint.lstrip('/')}"
Url(self, endpoint) == <<self.base_url, "/">> \o lstrip(endpoint, {"/"})

\* What the upstream can answer to one request: the send itself fails
\* (requests raises Timeout or ConnectionError), or it yields a status and a
\* body text, which is JSON or not.  A 3xx status that is no redirect to
\* follow (300, 304) reaches the client like any other status.
Bodies == {"json-1", "json-2"}

Responses ==
    {[send |-> "Timeout", status |-> 0, text |-> ""],
     [send |-> "ConnectionError", status |-> 0, text |-> ""],
     [send |-> "ok", status |-> 404, text |-> "json-1"],
     [send |-> "ok", status |-> 304, text |-> "json-1"],
     [send |-> "ok", status |-> 200, text |-> "not json"]}
    \cup {[send |-> "ok", status |-> 200, text |-> b] : b \in Bodies}

\* a Python exception raised by requests, with no cause of its own
Exception(type) == [kind |-> "raise", type |-> type, message |-> <<>>, cause |-> None]

\* self.session.<verb>(url, ..., timeout=self.timeout): the exchanges with the
\* upstream that one call makes, each the request and the upstream's answer
session_request(self, verb, url, params, json, resp) ==
    <<[verb |-> verb, url |-> url, headers |-> self.headers, params |-> params,
       json |-> json, timeout |-> self.timeout, response |-> resp]>>

\* the rest of a client method: the send's own exception, then
\* response.raise_for_status(), which raises for the statuses 400 to 599,
\* then response.json()
response_json(resp) ==
    IF resp.send # "ok" THEN Exception(resp.send)
    ELSE IF resp.status >= 400 /\ resp.status < 600 THEN Exception("HTTPError")
    ELSE IF resp.text \notin Bodies THEN Exception("JSONDecodeError")
    ELSE [kind |-> "return", value |-> resp.text]

\* APIClient.get / post / put / delete: the client after the call (its session
\* headers are changed), the exchanges made and the outcome
client_call(self, verb, endpoint, params, json, resp) ==
    LET after == [self EXCEPT !.headers = set_api_key_header(self, endpoint)]
    IN  [self |-> after,
         sent |-> session_request(after, verb, Url(after, endpoint), params, json, resp),
         outcome |-> response_json(resp)]

APIClient_get(self, endpoint, params, resp) ==
    client_call(self, "GET", endpoint, params, None, resp)

APIClient_post(self, endpoint, json, resp) ==
    client_call(self, "POST", endpoint, None, json, resp)

APIClient_put(self, endpoint, json, resp) ==
    client_call(self, "PUT", endpoint, None, json, resp)

APIClient_delete(self, endpoint, resp) ==
    client_call(self, "DELETE", endpoint, None, None, resp)

\* as get_client, without the cache: a client is built on every call
get_client_rebuilt ==
    LET config == get_client_config
    IN  APIClient(config.part_api_key, config.order_api_key,
                  config.api_base_url, config.timeout, config.debug)

\* client.get_client: the singleton, built from the configuration on first use
get_client ==
    IF client_instance = None
    THEN LET config == get_client_config
         IN  APIClient(config.part_api_key, config.order_api_key,
                       config.api_base_url, config.timeout, config.debug)
    ELSE client_instance

-----------------------------------------------------------------------------
(* Domain operations: the common template *)

NoError == ""

\* `raise ValueError(message)` before get_client(): nothing else is touched
raise_ValueError(op, args, message) ==
    /\ invocation' = [op |-> op, args |-> args]
    /\ sent' = <<>>
    /\ result' = [kind |-> "raise", type |-> "ValueError",
                  message |-> <<message>>, cause |-> None]
    /\ UNCHANGED <<environ, client_instance, call_count, tasks>>

\* as try_except, without the except clause: the client's exception escapes
try_except_missing(outcome, failure) == outcome

\* try: return client.<verb>(...)
\* except Exception as e: raise RuntimeError(f"{failure}: {e}") from e
try_except(outcome, failure) ==
    IF outcome.kind = "raise"
    THEN [kind |-> "raise", type |-> "RuntimeError",
          message |-> <<failure, outcome.type>>, cause |-> outcome]
    ELSE outcome

\* as after_call, with the results memoized: an invocation equal to the one
\* before it that returned gives that result again and sends nothing
after_call_memoized(op, args, call, outcome) ==
    /\ call_count < MaxCalls
    /\ invocation' = [op |-> op, args |-> args]
    /\ UNCHANGED <<environ, tasks>>
    /\ IF invocation = [op |-> op, args |-> args] /\ result.kind = "return"
       THEN /\ sent' = <<>>
            /\ result' = result
            /\ UNCHANGED <<client_instance, call_count>>
       ELSE /\ client_instance' = call.self
            /\ sent' = call.sent
            /\ call_count' = call_count + Len(call.sent)
            /\ result' = outcome

\* the state after a call of the client: `call` is what the client method did
after_call(op, args, call, outcome) ==
    /\ call_count < MaxCalls
    /\ invocation' = [op |-> op, args |-> args]
    /\ client_instance' = call.self
    /\ sent' = call.sent
    /\ call_count' = call_count + Len(call.sent)
    /\ result' = outcome
    /\ UNCHANGED <<environ, tasks>>

-----------------------------------------------------------------------------
(* api/search.py *)

SEARCH_KEYWORD ==
    <<"s", "e", "a", "r", "c", "h", "/", "k", "e", "y", "w", "o", "r", "d">>
SEARCH_PARTNUMBER ==
    <<"s", "e", "a", "r", "c", "h", "/", "p", "a", "r", "t", "n", "u", "m", "b", "e", "r">>

\* as search_by_keyword_error, with the upper limit off by one
search_by_keyword_error_strict(keyword, records) ==
    IF strip(keyword) = <<>> THEN "Keyword cannot be empty"
    ELSE IF records >= 50 THEN "Maximum 50 records per request (API limit)"
    ELSE IF records < 1 THEN "Records must be at least 1"
    ELSE NoError

search_by_keyword_error(keyword, records) ==
    IF strip(keyword) = <<>> THEN "Keyword cannot be empty"
    ELSE IF records > 50 THEN "Maximum 50 records per request (API limit)"
    ELSE IF records < 1 THEN "Records must be at least 1"
    ELSE NoError

search_by_keyword(keyword, records, start_record, resp) ==
    LET args == [keyword |-> keyword, records |-> records,
                 start_record |-> start_record]
        error == search_by_keyword_error(keyword, records)
        payload == [SearchByKeywordRequest |->
                       [keyword |-> keyword, records |-> records,
                        startingRecord |-> start_record]]
        call == APIClient_post(get_client, SEARCH_KEYWORD, payload, resp)
    IN  IF error # NoError
        THEN raise_ValueError("search_by_keyword", args, error)
        ELSE after_call("search_by_keyword", args, call,
                        try_except(call.outcome, "Failed to search by keyword"))

search_by_part_number_error(part_number) ==
    IF strip(part_number) = <<>> THEN "Part number cannot be empty" ELSE NoError

search_by_part_number(part_number, resp) ==
    LET args == [part_number |-> part_number]
        error == search_by_part_number_error(part_number)
        payload == [SearchByPartRequest |-> [mouserPartNumber |-> part_number]]
        call == APIClient_post(get_client, SEARCH_PARTNUMBER, payload, resp)
    IN  IF error # NoError
        THEN raise_ValueError("search_by_part_number", args, error)
        ELSE after_call("search_by_part_number", args, call,
                        try_except(call.outcome, "Failed to search by part number"))

-----------------------------------------------------------------------------
(* api/cart.py *)

CART == <<"c", "a", "r", "t">>
CART_ITEMS_INSERT ==
    <<"c", "a", "r", "t", "/", "i", "t", "e", "m", "s", "/", "i", "n", "s", "e", "r", "t">>
CART_ITEMS_UPDATE ==
    <<"c", "a", "r", "t", "/", "i", "t", "e", "m", "s", "/", "u", "p", "d", "a", "t", "e">>

get_cart_error(cart_key) ==
    IF strip(cart_key) = <<>> THEN "Cart key cannot be empty" ELSE NoError

\* as get_cart, with the cart key in the path instead of the query
get_cart_by_path(cart_key, resp) ==
    LET args == [cart_key |-> cart_key]
        error == get_cart_error(cart_key)
        call == APIClient_get(get_client, CART \o <<"/">> \o cart_key, None, resp)
    IN  IF error # NoError
        THEN raise_ValueError("get_cart", args, error)
        ELSE after_call("get_cart", args, call,
                        try_except(call.outcome, "Failed to retrieve cart"))

get_cart(cart_key, resp) ==
    LET args == [cart_key |-> cart_key]
        error == get_cart_error(cart_key)
        call == APIClient_get(get_client, CART, [cartKey |-> cart_key], resp)
    IN  IF error # NoError
        THEN raise_ValueError("get_cart", args, error)
        ELSE after_call("get_cart", args, call,
                        try_except(call.outcome, "Failed to retrieve cart"))

add_to_cart_error(cart_key, mouser_part_number, quantity) ==
    IF strip(cart_key) = <<>> THEN "Cart key cannot be empty"
    ELSE IF strip(mouser_part_number) = <<>> THEN "Mouser part number cannot be empty"
    ELSE IF quantity < 1 THEN "Quantity must be at least 1"
    ELSE NoError

\* the default of add_to_cart's parameter customer_part_number: ""
customer_part_number_default == <<>>

\* as add_to_cart, with the customer's reference not passed on
add_to_cart_bare(cart_key, mouser_part_number, quantity, customer_part_number, resp) ==
    LET args == [cart_key |-> cart_key, mouser_part_number |-> mouser_part_number,
                 quantity |-> quantity,
                 customer_part_number |-> customer_part_number]
        error == add_to_cart_error(cart_key, mouser_part_number, quantity)
        payload == [CartKey |-> cart_key,
                    CartItems |-> <<[MouserPartNumber |-> mouser_part_number,
                                     Quantity |-> quantity,
                                     CustomerPartNumber |-> customer_part_number_default]>>]
        call == APIClient_post(get_client, CART_ITEMS_INSERT, payload, resp)
    IN  IF error # NoError
        THEN raise_ValueError("add_to_cart", args, error)
        ELSE after_call("add_to_cart", args, call,
                        try_except(call.outcome, "Failed to add item to cart"))

add_to_cart(cart_key, mouser_part_number, quantity, customer_part_number, resp) ==
    LET args == [cart_key |-> cart_key, mouser_part_number |-> mouser_part_number,
                 quantity |-> quantity,
                 customer_part_number |-> customer_part_number]
        error == add_to_cart_error(cart_key, mouser_part_number, quantity)
        payload == [CartKey |-> cart_key,
                    CartItems |-> <<[MouserPartNumber |-> mouser_part_number,
                                     Quantity |-> quantity,
                                     CustomerPartNumber |-> customer_part_number]>>]
        call == APIClient_post(get_client, CART_ITEMS_INSERT, payload, resp)
    IN  IF error # NoError
        THEN raise_ValueError("add_to_cart", args, error)
        ELSE after_call("add_to_cart", args, call,
                        try_except(call.outcome, "Failed to add item to cart"))

\* as update_cart_item_error, with the quantity test of add_to_cart
update_cart_item_error_positive(cart_key, mouser_part_number, quantity) ==
    IF strip(cart_key) = <<>> THEN "Cart key cannot be empty"
    ELSE IF strip(mouser_part_number) = <<>> THEN "Mouser part number cannot be empty"
    ELSE IF quantity < 1 THEN "Quantity cannot be negative"
    ELSE NoError

update_cart_item_error(cart_key, mouser_part_number, quantity) ==
    IF strip(cart_key) = <<>> THEN "Cart key cannot be empty"
    ELSE IF strip(mouser_part_number) = <<>> THEN "Mouser part number cannot be empty"
    ELSE IF quantity < 0 THEN "Quantity cannot be negative"
    ELSE NoError

update_cart_item(cart_key, mouser_part_number, quantity, resp) ==
    LET args == [cart_key |-> cart_key, mouser_part_number |-> mouser_part_number,
                 quantity |-> quantity]
        error == update_cart_item_error(cart_key, mouser_part_number, quantity)
        payload == [CartKey |-> cart_key,
                    CartItems |-> <<[MouserPartNumber |-> mouser_part_number,
                                     Quantity |-> quantity]>>]
        call == APIClient_post(get_client, CART_ITEMS_UPDATE, payload, resp)
    IN  IF error # NoError
        THEN raise_ValueError("update_cart_item", args, error)
        ELSE after_call("update_cart_item", args, call,
                        try_except(call.outcome, "Failed to update cart item"))

-----------------------------------------------------------------------------
(* api/order.py, api/order_history.py *)

ORDER_OPTIONS_QUERY ==
    <<"o", "r", "d", "e", "r", "/", "o", "p", "t", "i", "o", "n", "s", "/", "q", "u", "e", "r", "y">>
ORDER_GET == <<"o", "r", "d", "e", "r", "/", "g", "e", "t">>
ORDERHISTORY_QUERY ==
    <<"o", "r", "d", "e", "r", "h", "i", "s", "t", "o", "r", "y", "/", "q", "u", "e", "r", "y">>

get_order_options_error(cart_key) ==
    IF strip(cart_key) = <<>> THEN "Cart key cannot be empty" ELSE NoError

get_order_options(cart_key, resp) ==
    LET args == [cart_key |-> cart_key]
        error == get_order_options_error(cart_key)
        call == APIClient_post(get_client, ORDER_OPTIONS_QUERY,
                               [CartKey |-> cart_key], resp)
    IN  IF error # NoError
        THEN raise_ValueError("get_order_options", args, error)
        ELSE after_call("get_order_options", args, call,
                        try_except(call.outcome, "Failed to get order options"))

get_order_error(order_number) ==
    IF strip(order_number) = <<>> THEN "Order number cannot be empty" ELSE NoError

get_order(order_number, resp) ==
    LET args == [order_number |-> order_number]
        error == get_order_error(order_number)
        call == APIClient_post(get_client, ORDER_GET,
                               [OrderNumber |-> order_number], resp)
    IN  IF error # NoError
        THEN raise_ValueError("get_order", args, error)
        ELSE after_call("get_order", args, call,
                        try_except(call.outcome, "Failed to get order"))

list_order_history_error(days) ==
    IF days < 1 THEN "Days must be at least 1" ELSE NoError

list_order_history(days, resp) ==
    LET args == [days |-> days]
        error == list_order_history_error(days)
        call == APIClient_post(get_client, ORDERHISTORY_QUERY, [Days |-> days], resp)
    IN  IF error # NoError
        THEN raise_ValueError("list_order_history", args, error)
        ELSE after_call("list_order_history", args, call,
                        try_except(call.outcome, "Failed to get order history"))

-----------------------------------------------------------------------------
(* Other callers of the client, and the environment *)

\* get_client().get(endpoint) and the like, called directly: the client's
\* exception, if any, reaches the caller as it is
client_get(endpoint, resp) ==
    LET call == APIClient_get(get_client, endpoint, None, resp)
    IN  after_call("APIClient.get", [endpoint |-> endpoint], call, call.outcome)

client_post(endpoint, resp) ==
    LET call == APIClient_post(get_client, endpoint, None, resp)
    IN  after_call("APIClient.post", [endpoint |-> endpoint], call, call.outcome)

client_put(endpoint, resp) ==
    LET call == APIClient_put(get_client, endpoint, None, resp)
    IN  after_call("APIClient.put", [endpoint |-> endpoint], call, call.outcome)

client_delete(endpoint, resp) ==
    LET call == APIClient_delete(get_client, endpoint, resp)
    IN  after_call("APIClient.delete", [endpoint |-> endpoint], call, call.outcome)

\* the configuration changes while the process runs: os.environ[name] = value
setenv(name, value) ==
    /\ IF name \in DOMAIN environ THEN environ[name] # value ELSE TRUE
    /\ environ' = setitem(environ, name, value)
    /\ UNCHANGED <<client_instance, call_count, invocation, sent, result, tasks>>

\* del os.environ[name]
unsetenv(name) ==
    /\ name \in DOMAIN environ
    /\ environ' = pop(environ, name)
    /\ UNCHANGED <<client_instance, call_count, invocation, sent, result, tasks>>

-----------------------------------------------------------------------------
(* server.py: the health check tool and the status resource *)

\* str(int): the decimal digits, for the timeouts the environment holds
str(n) == CASE n = 30 -> "30" [] n = 5 -> "5"

\* str(bool)
bool_str(b) == IF b THEN "True" ELSE "False"

\* the dict that health_check returns, given the configuration it read
health_check_return(config) ==
    [status |-> "healthy",
     server |-> "Mouser Electronics MCP Server",
     version |-> "0.1.0",
     part_api_configured |-> Truthy(config.part_api_key),
     order_api_configured |-> Truthy(config.order_api_key),
     base_url |-> config.api_base_url]

\* as health_check, asking the client: get_client() builds the singleton and
\* the base URL reported is the client's
health_check_probing ==
    /\ invocation' = [op |-> "health_check", args |-> <<>>]
    /\ sent' = <<>>
    /\ client_instance' = get_client
    /\ result' = [kind |-> "return",
                  value |-> health_check_return(
                                [get_client_config EXCEPT
                                    !.api_base_url = get_client.base_url])]
    /\ UNCHANGED <<environ, call_count, tasks>>

\* server.health_check: reads the configuration and returns
health_check ==
    /\ invocation' = [op |-> "health_check", args |-> <<>>]
    /\ sent' = <<>>
    /\ result' = [kind |-> "return", value |-> health_check_return(get_client_config)]
    /\ UNCHANGED <<environ, client_instance, call_count, tasks>>

\* as get_server_status_return, with the end of each key shown
get_server_status_return_keys(config) ==
    <<"Mouser MCP Server Status:",
      "- Base URL: ", config.api_base_url,
      "- Part Search API Key: ", config.part_api_key,
      "- Order API Key: ", config.order_api_key,
      "- Timeout: ", str(config.timeout), "s",
      "- Debug Mode: ", bool_str(config.debug)>>

\* the text that get_server_status returns, given the configuration it read:
\* the pieces of the f-string in order.  The two marks before "Configured" and
\* "Not configured" are written (+) and (-).
get_server_status_return(config) ==
    <<"Mouser MCP Server Status:",
      "- Base URL: ", config.api_base_url,
      "- Part Search API Key: ",
      IF Truthy(config.part_api_key) THEN "(+) Configured" ELSE "(-) Not configured",
      "- Order API Key: ",
      IF Truthy(config.order_api_key) THEN "(+) Configured" ELSE "(-) Not configured",
      "- Timeout: ", str(config.timeout), "s",
      "- Debug Mode: ", bool_str(config.debug)>>

\* server.get_server_status: reads the configuration and returns the text
get_server_status ==
    /\ invocation' = [op |-> "get_server_status", args |-> <<>>]
    /\ sent' = <<>>
    /\ result' = [kind |-> "return",
                  value |-> get_server_status_return(get_client_config)]
    /\ UNCHANGED <<environ, client_instance, call_count, tasks>>

-----------------------------------------------------------------------------
(* The client's methods step by step, for callers that overlap *)

\* the positions of a task between entering a client method and handing its
\* request to the transport
Selecting == {"pop_search", "pop_order", "set_key", "send"}

\* a task may start a call: it is in none
MayStart(t) == tasks[t].pc \in {"idle", "done"}

\* the request a client method hands to the transport: it carries the session's
\* headers as they are at that moment
prepare_request(self, verb, endpoint, params, json) ==
    [verb |-> verb, url |-> Url(self, endpoint), headers |-> self.headers,
     params |-> params, json |-> json, timeout |-> self.timeout]

\* as dispatch, with the request prepared before the key header is selected
dispatch_unselected(t, op, args, verb, endpoint, params, json, failure) ==
    LET self == get_client
        after == [self EXCEPT !.headers = set_api_key_header(self, endpoint)]
    IN  /\ MayStart(t)
        /\ call_count < MaxCalls
        /\ client_instance' = after
        /\ call_count' = call_count + 1
        /\ tasks' = [tasks EXCEPT ![t] =
                        [pc |-> "await", op |-> op, args |-> args,
                         endpoint |-> endpoint, failure |-> failure,
                         request |-> prepare_request(self, verb, endpoint,
                                                     params, json)]]
        /\ UNCHANGED <<environ, invocation, sent, result>>

\* get_client() and a client method up to the network call, without a
\* suspension: _set_api_key_header, the URL, and the request handed to the
\* transport; the task then waits for the upstream
dispatch(t, op, args, verb, endpoint, params, json, failure) ==
    LET self == get_client
        after == [self EXCEPT !.headers = set_api_key_header(self, endpoint)]
    IN  /\ MayStart(t)
        /\ call_count < MaxCalls
        /\ client_instance' = after
        /\ call_count' = call_count + 1
        /\ tasks' = [tasks EXCEPT ![t] =
                        [pc |-> "await", op |-> op, args |-> args,
                         endpoint |-> endpoint, failure |-> failure,
                         request |-> prepare_request(after, verb, endpoint,
                                                     params, json)]]
        /\ UNCHANGED <<environ, invocation, sent, result>>

\* the upstream's answer reaches a waiting task: raise_for_status, json(), and
\* for a domain operation the except clause; the caller gets the outcome
receive(t, resp) ==
    LET task == tasks[t]
        outcome == response_json(resp)
    IN  /\ task.pc = "await"
        /\ invocation' = [op |-> task.op, args |-> task.args]
        /\ sent' = <<[verb |-> task.request.verb, url |-> task.request.url,
                      headers |-> task.request.headers,
                      params |-> task.request.params, json |-> task.request.json,
                      timeout |-> task.request.timeout, response |-> resp]>>
        /\ result' = IF task.failure = NoError THEN outcome
                     ELSE try_except(outcome, task.failure)
        /\ tasks' = [tasks EXCEPT ![t].pc = "done"]
        /\ UNCHANGED <<environ, client_instance, call_count>>

\* search_by_keyword as a task: validation, get_client and client.post up to
\* the network call run without a suspension
search_by_keyword_task(t, keyword, records, start_record) ==
    LET args == [keyword |-> keyword, records |-> records,
                 start_record |-> start_record]
        error == search_by_keyword_error(keyword, records)
        payload == [SearchByKeywordRequest |->
                       [keyword |-> keyword, records |-> records,
                        startingRecord |-> start_record]]
    IN  IF error # NoError
        THEN MayStart(t) /\ raise_ValueError("search_by_keyword", args, error)
        ELSE dispatch(t, "search_by_keyword", args, "POST", SEARCH_KEYWORD,
                      None, payload, "Failed to search by keyword")

\* get_cart as a task
get_cart_task(t, cart_key) ==
    LET args == [cart_key |-> cart_key]
        error == get_cart_error(cart_key)
    IN  IF error # NoError
        THEN MayStart(t) /\ raise_ValueError("get_cart", args, error)
        ELSE dispatch(t, "get_cart", args, "GET", CART,
                      [cartKey |-> cart_key], None, "Failed to retrieve cart")

\* get_client().post(endpoint) as a task
client_post_task(t, endpoint) ==
    dispatch(t, "APIClient.post", [endpoint |-> endpoint], "POST", endpoint,
             None, None, NoError)

\* A caller holding the client enters client.get or client.post; from here on
\* each statement of the method is a step of its own, and steps of other
\* tasks may come between them.
enter_call(t, verb, endpoint) ==
    /\ MayStart(t)
    /\ call_count + Cardinality({u \in Tasks : tasks[u].pc \in Selecting}) < MaxCalls
    /\ client_instance' = get_client
    /\ tasks' = [tasks EXCEPT ![t] =
                    [pc |-> "pop_search",
                     op |-> IF verb = "GET" THEN "APIClient.get" ELSE "APIClient.post",
                     args |-> [endpoint |-> endpoint],
                     verb |-> verb, endpoint |-> endpoint, failure |-> NoError]]
    /\ UNCHANGED <<environ, call_count, invocation, sent, result>>

\* as pop_SearchApi_Key, with the header left where it is
pop_SearchApi_Key_skipped(t) ==
    /\ tasks[t].pc = "pop_search"
    /\ tasks' = [tasks EXCEPT ![t].pc = "pop_order"]
    /\ UNCHANGED <<environ, client_instance, call_count, invocation, sent, result>>

\* self.session.headers.pop("SearchApi-Key", None)
pop_SearchApi_Key(t) ==
    /\ tasks[t].pc = "pop_search"
    /\ client_instance' =
          [client_instance EXCEPT !.headers = pop(@, "SearchApi-Key")]
    /\ tasks' = [tasks EXCEPT ![t].pc = "pop_order"]
    /\ UNCHANGED <<environ, call_count, invocation, sent, result>>

\* self.session.headers.pop("OrderApi-Key", None)
pop_OrderApi_Key(t) ==
    /\ tasks[t].pc = "pop_order"
    /\ client_instance' =
          [client_instance EXCEPT !.headers = pop(@, "OrderApi-Key")]
    /\ tasks' = [tasks EXCEPT ![t].pc = "set_key"]
    /\ UNCHANGED <<environ, call_count, invocation, sent, result>>

\* as set_key_header, with the test of the endpoint inverted
set_key_header_inverted(t) ==
    LET self == client_instance
    IN  /\ tasks[t].pc = "set_key"
        /\ client_instance' =
              IF ~IsSearchEndpoint(tasks[t].endpoint)
              THEN IF Truthy(self.part_api_key)
                   THEN [self EXCEPT !.headers =
                            setitem(@, "SearchApi-Key", self.part_api_key)]
                   ELSE self
              ELSE IF Truthy(self.order_api_key)
                   THEN [self EXCEPT !.headers =
                            setitem(@, "OrderApi-Key", self.order_api_key)]
                   ELSE self
        /\ tasks' = [tasks EXCEPT ![t].pc = "send"]
        /\ UNCHANGED <<environ, call_count, invocation, sent, result>>

\* the if statement of _set_api_key_header: the selected key, if it is not
\* empty, is stored under its header
set_key_header(t) ==
    LET self == client_instance
    IN  /\ tasks[t].pc = "set_key"
        /\ client_instance' =
              IF IsSearchEndpoint(tasks[t].endpoint)
              THEN IF Truthy(self.part_api_key)
                   THEN [self EXCEPT !.headers =
                            setitem(@, "SearchApi-Key", self.part_api_key)]
                   ELSE self
              ELSE IF Truthy(self.order_api_key)
                   THEN [self EXCEPT !.headers =
                            setitem(@, "OrderApi-Key", self.order_api_key)]
                   ELSE self
        /\ tasks' = [tasks EXCEPT ![t].pc = "send"]
        /\ UNCHANGED <<environ, call_count, invocation, sent, result>>

\* the URL and self.session.<verb>(url, ...): the request goes out with the
\* headers the session holds now; the task then waits for the upstream
session_send(t) ==
    /\ tasks[t].pc = "send"
    /\ call_count' = call_count + 1
    /\ tasks' = [tasks EXCEPT ![t] =
                    [pc |-> "await", op |-> @.op, args |-> @.args,
                     endpoint |-> @.endpoint, failure |-> @.failure,
                     request |-> prepare_request(client_instance, @.verb,
                                                 @.endpoint, None, None)]]
    /\ UNCHANGED <<environ, client_instance, invocation, sent, result>>

-----------------------------------------------------------------------------
(* Specifications *)

\* the process has started: nothing was called yet
Init ==
    /\ environ \in Environs
    /\ client_instance = None
    /\ call_count = 0
    /\ invocation = None
    /\ sent = <<>>
    /\ result = None
    /\ tasks = [t \in Tasks |-> Idle]

\* the endpoints of the eight domain operations
OperationEndpoints ==
    {SEARCH_KEYWORD, SEARCH_PARTNUMBER, CART, CART_ITEMS_INSERT, CART_ITEMS_UPDATE,
     ORDER_OPTIONS_QUERY, ORDER_GET, ORDERHISTORY_QUERY}

\* endpoints given to the client directly
DirectEndpoints == {SEARCH_KEYWORD, CART, <<"/">> \o SEARCH_KEYWORD}

\* arguments and answers of the specification Spec, where the configuration
\* changes: the shortest strings, each number at its threshold and below it
ShortStrs == {s \in Strs : Len(s) <= 1}
Given == {s \in ShortStrs : strip(s) # <<>>}
BriefResponses ==
    {r \in Responses : r.send = "Timeout" \/ (r.text = "json-1" /\ r.status = 200)}

Next ==
    \/ \E name \in EnvNames : \E value \in EnvValues[name] : setenv(name, value)
    \/ \E name \in EnvNames : unsetenv(name)
    \/ \E keyword \in ShortStrs, records \in {50, 51}, resp \in BriefResponses :
          search_by_keyword(keyword, records, 0, resp)
    \/ \E part_number \in ShortStrs, resp \in BriefResponses :
          search_by_part_number(part_number, resp)
    \/ \E cart_key \in ShortStrs, resp \in BriefResponses : get_cart(cart_key, resp)
    \/ \E cart_key \in ShortStrs, mouser_part_number \in Given,
          quantity \in {0, 1}, resp \in BriefResponses :
          add_to_cart(cart_key, mouser_part_number, quantity, <<>>, resp)
    \/ \E cart_key \in Given, mouser_part_number \in ShortStrs,
          quantity \in {-1, 0}, resp \in BriefResponses :
          update_cart_item(cart_key, mouser_part_number, quantity, resp)
    \/ \E cart_key \in ShortStrs, resp \in BriefResponses :
          get_order_options(cart_key, resp)
    \/ \E order_number \in ShortStrs, resp \in BriefResponses :
          get_order(order_number, resp)
    \/ \E days \in {0, 1}, resp \in BriefResponses : list_order_history(days, resp)
    \/ \E endpoint \in DirectEndpoints, resp \in BriefResponses :
          client_get(endpoint, resp)
    \/ \E endpoint \in DirectEndpoints, resp \in BriefResponses :
          client_post(endpoint, resp)
    \/ \E endpoint \in DirectEndpoints, resp \in BriefResponses :
          client_put(endpoint, resp)
    \/ \E endpoint \in DirectEndpoints, resp \in BriefResponses :
          client_delete(endpoint, resp)

Spec == Init /\ [][Next]_vars

\* The operations on every argument: strings up to MaxLen, numbers from Margin
\* below each threshold to Margin above it.  The configuration is the usual
\* one, both keys set, and does not change.
ConfiguredEnviron ==
    [n \in {"MOUSER_PART_API_KEY", "MOUSER_ORDER_API_KEY"} |->
        IF n = "MOUSER_PART_API_KEY" THEN "part-key" ELSE "order-key"]

InitConfigured == Init /\ environ = ConfiguredEnviron

Records == (1 - Margin)..(50 + Margin)
\* the records within Margin of a limit
RecordsAtLimits == {r \in Records : r <= 1 + Margin \/ r >= 50 - Margin}
Quantities == (0 - Margin)..(1 + Margin)
Days == (1 - Margin)..(1 + Margin)
OkResponses == {r \in Responses : r.text = "json-1" /\ r.status = 200}
\* two string arguments: every string in one place with a given one in the
\* other, and the shortest strings in both
StrPairs == (Strs \X Given) \cup (Given \X Strs) \cup (ShortStrs \X ShortStrs)

NextArgs ==
    \/ \E keyword \in Strs, records \in RecordsAtLimits, start_record \in {0, 50},
          resp \in OkResponses :
          search_by_keyword(keyword, records, start_record, resp)
    \/ \E keyword \in Given, records \in Records, resp \in OkResponses :
          search_by_keyword(keyword, records, 0, resp)
    \/ \E part_number \in Strs, resp \in OkResponses :
          search_by_part_number(part_number, resp)
    \/ \E cart_key \in Strs, resp \in OkResponses : get_cart(cart_key, resp)
    \/ \E pair \in StrPairs, quantity \in Quantities,
          customer_part_number \in {customer_part_number_default, <<"a">>},
          resp \in OkResponses :
          add_to_cart(pair[1], pair[2], quantity, customer_part_number, resp)
    \/ \E pair \in StrPairs, quantity \in Quantities, resp \in OkResponses :
          update_cart_item(pair[1], pair[2], quantity, resp)
    \/ \E cart_key \in Strs, resp \in OkResponses : get_order_options(cart_key, resp)
    \/ \E order_number \in Strs, resp \in OkResponses : get_order(order_number, resp)
    \/ \E days \in Days, resp \in OkResponses : list_order_history(days, resp)

SpecArgs == InitConfigured /\ [][NextArgs]_vars

\* The operations against every answer of the upstream, on the shortest
\* arguments; the configuration is the usual one and does not change.
NextUpstream ==
    \/ \E keyword \in ShortStrs, resp \in Responses :
          search_by_keyword(keyword, 50, 0, resp)
    \/ \E part_number \in ShortStrs, resp \in Responses :
          search_by_part_number(part_number, resp)
    \/ \E cart_key \in ShortStrs, resp \in Responses : get_cart(cart_key, resp)
    \/ \E cart_key \in ShortStrs, resp \in Responses :
          add_to_cart(cart_key, <<"a">>, 1, <<>>, resp)
    \/ \E cart_key \in ShortStrs, resp \in Responses :
          update_cart_item(cart_key, <<"a">>, 0, resp)
    \/ \E cart_key \in ShortStrs, resp \in Responses :
          get_order_options(cart_key, resp)
    \/ \E order_number \in ShortStrs, resp \in Responses :
          get_order(order_number, resp)
    \/ \E days \in {0, 1}, resp \in Responses : list_order_history(days, resp)

SpecUpstream == InitConfigured /\ [][NextUpstream]_vars

\* The health check and the status resource, in every configuration: each key
\* unset or one of two values, the base URL, the timeout and the debug flag
\* unset or set.  The base URL and the timeout change while the process runs,
\* before and after the client is built.
StatusEnvValues ==
    [MOUSER_PART_API_KEY |-> {"part-key", "part-key-2"},
     MOUSER_ORDER_API_KEY |-> {"order-key", "order-key-2"},
     MOUSER_API_BASE_URL |-> {"https://sandbox.example/api"},
     MOUSER_API_TIMEOUT |-> {"5"},
     MOUSER_DEBUG |-> {"TRUE"}]

StatusEnvirons ==
    {e \in UNION {[names -> UNION {StatusEnvValues[n] : n \in names}] :
                    names \in SUBSET EnvNames} :
        \A n \in DOMAIN e : e[n] \in StatusEnvValues[n]}

InitStatus ==
    /\ environ \in StatusEnvirons
    /\ client_instance = None
    /\ call_count = 0
    /\ invocation = None
    /\ sent = <<>>
    /\ result = None
    /\ tasks = [t \in Tasks |-> Idle]

ChangingNames == {"MOUSER_API_BASE_URL", "MOUSER_API_TIMEOUT"}

NextStatus ==
    \/ \E name \in ChangingNames : \E value \in StatusEnvValues[name] :
          setenv(name, value)
    \/ \E name \in ChangingNames : unsetenv(name)
    \/ health_check
    \/ get_server_status
    \/ \E resp \in OkResponses : get_cart(<<"a">>, resp)
    \/ \E resp \in OkResponses : client_post(<<"/">> \o SEARCH_KEYWORD, resp)

SpecStatus == InitStatus /\ [][NextStatus]_vars

\* The tools as cooperative tasks: a task runs without interruption up to its
\* network call, and other tasks run while it waits for the upstream.
NextCooperative ==
    \/ \E t \in Tasks, keyword \in ShortStrs :
          search_by_keyword_task(t, keyword, 50, 0)
    \/ \E t \in Tasks, cart_key \in ShortStrs : get_cart_task(t, cart_key)
    \/ \E t \in Tasks : client_post_task(t, <<"/">> \o SEARCH_KEYWORD)
    \/ \E t \in Tasks, resp \in BriefResponses : receive(t, resp)

SpecCooperative == Init /\ [][NextCooperative]_vars

\* Two threads, each making one call of the shared client, preempted between
\* any two statements of the client's methods; both keys are configured.
NextThreads ==
    \/ \E t \in Tasks, endpoint \in DirectEndpoints :
          tasks[t] = Idle /\ enter_call(t, IF endpoint = CART THEN "GET" ELSE "POST",
                                        endpoint)
    \/ \E t \in Tasks : pop_SearchApi_Key(t)
    \/ \E t \in Tasks : pop_OrderApi_Key(t)
    \/ \E t \in Tasks : set_key_header(t)
    \/ \E t \in Tasks : session_send(t)
    \/ \E t \in Tasks, resp \in BriefResponses : receive(t, resp)

SpecThreads == InitConfigured /\ [][NextThreads]_vars

\* One caller making one call after another, statement by statement, in every
\* configuration of the keys.
Caller == "task-1"

NextSteps ==
    \/ \E endpoint \in DirectEndpoints :
          enter_call(Caller, IF endpoint = CART THEN "GET" ELSE "POST", endpoint)
    \/ pop_SearchApi_Key(Caller)
    \/ pop_OrderApi_Key(Caller)
    \/ set_key_header(Caller)
    \/ session_send(Caller)
    \/ \E resp \in BriefResponses : receive(Caller, resp)

SpecSteps == Init /\ [][NextSteps]_vars

-----------------------------------------------------------------------------
(* Vocabulary of the properties *)

DomainOperations ==
    {"search_by_keyword", "search_by_part_number", "get_cart", "add_to_cart",
     "update_cart_item", "get_order_options", "get_order", "list_order_history"}

KeyHeaders == {"SearchApi-Key", "OrderApi-Key"}

\* the key headers a request carries
KeysOn(req) == DOMAIN req.headers \cap KeyHeaders

\* the path of a request: its URL after the base URL and the slash
PathOf(req) == SubSeq(req.url, 3, Len(req.url))

\* the rule as the specification words it: the path contains `search`
MentionsSearch(path) == Contains(<<"s", "e", "a", "r", "c", "h">>, path)

\* the endpoint an invocation hands to the client
EndpointOf(inv) ==
    CASE inv.op = "search_by_keyword" -> SEARCH_KEYWORD
      [] inv.op = "search_by_part_number" -> SEARCH_PARTNUMBER
      [] inv.op = "get_cart" -> CART
      [] inv.op = "add_to_cart" -> CART_ITEMS_INSERT
      [] inv.op = "update_cart_item" -> CART_ITEMS_UPDATE
      [] inv.op = "get_order_options" -> ORDER_OPTIONS_QUERY
      [] inv.op = "get_order" -> ORDER_GET
      [] inv.op = "list_order_history" -> ORDERHISTORY_QUERY
      [] OTHER -> inv.args.endpoint

\* empty or whitespace-only
Blank(s) == \A i \in 1..Len(s) : s[i] \in Whitespace

\* some invocation ran in this step
Called ==
    <<invocation, sent, result, call_count>>' # <<invocation, sent, result, call_count>>

-----------------------------------------------------------------------------
(* C1: with both API keys configured, every request a domain operation       *)
(* dispatches to a path containing `search` carries the SearchApi-Key header *)
(* and not the OrderApi-Key header, and every request to any other path      *)
(* carries the OrderApi-Key header and not the SearchApi-Key header.         *)
C1_KeySelection ==
    \A i \in 1..Len(sent) :
        (/\ invocation.op \in DomainOperations
         /\ Truthy(client_instance.part_api_key)
         /\ Truthy(client_instance.order_api_key))
        => KeysOn(sent[i]) = IF MentionsSearch(PathOf(sent[i]))
                             THEN {"SearchApi-Key"}
                             ELSE {"OrderApi-Key"}

(* C2, as claimed: every request issued through the client, for every path  *)
(* and every configuration of the two keys, carries exactly one of the      *)
(* headers SearchApi-Key and OrderApi-Key.                                  *)
C2_ExactlyOneKeyHeader ==
    \A i \in 1..Len(sent) : Cardinality(KeysOn(sent[i])) = 1

(* C2, amended: every request issued through the client carries at most one *)
(* of the two headers, never both: the header of the key the client selects *)
(* for the path, with that key as its value, when that key is non-empty,    *)
(* and neither header when that key is empty.                               *)
C2_AtMostOneKeyHeader ==
    \A i \in 1..Len(sent) :
        LET req == sent[i]
            header == IF Contains(<<"/", "s", "e", "a", "r", "c", "h", "/">>,
                                  EndpointOf(invocation))
                      THEN "SearchApi-Key" ELSE "OrderApi-Key"
            key == IF header = "SearchApi-Key"
                   THEN client_instance.part_api_key
                   ELSE client_instance.order_api_key
        IN  /\ Cardinality(KeysOn(req)) <= 1
            /\ key # "" => KeysOn(req) = {header} /\ req.headers[header] = key
            /\ key = "" => KeysOn(req) = {}

\* a request went out with no key header although the other key is configured
C2_WitnessNoKey ==
    /\ sent # <<>>
    /\ KeysOn(sent[1]) = {}
    /\ Truthy(client_instance.part_api_key)

(* C3: when the key that the rule selects for a path (the search key for a  *)
(* path containing `search`, the order key otherwise) is empty, the request *)
(* is still dispatched and carries neither SearchApi-Key nor OrderApi-Key,  *)
(* even if the other key is configured, and no validation error is raised.  *)
C3_EmptyKeyNoHeader ==
    \A i \in 1..Len(sent) :
        LET key == IF MentionsSearch(PathOf(sent[i]))
                   THEN client_instance.part_api_key
                   ELSE client_instance.order_api_key
        IN  key = "" =>
                /\ KeysOn(sent[i]) = {}
                /\ ~(result.kind = "raise" /\ result.type = "ValueError")

-----------------------------------------------------------------------------
(* Validation, as the properties state it *)

\* the required string arguments of an invocation
RequiredStrings(inv) ==
    CASE inv.op = "search_by_keyword" -> {inv.args.keyword}
      [] inv.op = "search_by_part_number" -> {inv.args.part_number}
      [] inv.op = "get_cart" -> {inv.args.cart_key}
      [] inv.op = "add_to_cart" -> {inv.args.cart_key, inv.args.mouser_part_number}
      [] inv.op = "update_cart_item" -> {inv.args.cart_key, inv.args.mouser_part_number}
      [] inv.op = "get_order_options" -> {inv.args.cart_key}
      [] inv.op = "get_order" -> {inv.args.order_number}
      [] OTHER -> {}

\* the numeric bounds of an invocation
InBounds(inv) ==
    CASE inv.op = "search_by_keyword" -> inv.args.records >= 1 /\ inv.args.records <= 50
      [] inv.op = "add_to_cart" -> inv.args.quantity >= 1
      [] inv.op = "update_cart_item" -> inv.args.quantity >= 0
      [] inv.op = "list_order_history" -> inv.args.days >= 1
      [] OTHER -> TRUE

PassesValidation(inv) ==
    /\ \A s \in RequiredStrings(inv) : ~Blank(s)
    /\ InBounds(inv)

\* the invocation ended in a validation failure and sent nothing
Rejected == result.kind = "raise" /\ result.type = "ValueError" /\ sent = <<>>

RejectedWith(message) == Rejected /\ result.message = <<message>>

\* the invocation got past validation: its request went out
Dispatched == Len(sent) = 1 /\ ~(result.kind = "raise" /\ result.type = "ValueError")

-----------------------------------------------------------------------------
(* C4: a domain operation called with a required string argument empty or   *)
(* whitespace-only raises ValueError and attempts no network call: the      *)
(* transport's call count is unchanged and the client is not touched,       *)
(* whatever the other arguments are.                                        *)
C4_BlankArgumentRejected ==
    [][(/\ Called
        /\ invocation'.op \in DomainOperations
        /\ \E s \in RequiredStrings(invocation') : Blank(s))
       => /\ result'.kind = "raise" /\ result'.type = "ValueError"
          /\ sent' = <<>>
          /\ call_count' = call_count
          /\ client_instance' = client_instance]_vars

\* a whitespace-only argument was rejected after the transport had been used,
\* with the other arguments valid
C4_Witness ==
    /\ invocation # None
    /\ invocation.op = "add_to_cart"
    /\ invocation.args.mouser_part_number = <<" ", " ">>
    /\ ~Blank(invocation.args.cart_key) /\ invocation.args.quantity >= 1
    /\ Rejected
    /\ call_count > 0

(* C5, as claimed: when the upstream times out, the connection fails, the    *)
(* status is not 2xx or the body is not JSON, a domain operation raises     *)
(* RuntimeError with the original exception as its cause, after exactly one *)
(* request: there is no retry.                                              *)
ClaimedFailureOf(resp) ==
    CASE resp.send # "ok" -> resp.send
      [] resp.send = "ok" /\ resp.status \notin 200..299 -> "HTTPError"
      [] resp.send = "ok" /\ resp.status \in 200..299 /\ resp.text \notin Bodies
            -> "JSONDecodeError"
      [] OTHER -> "none"

FailureOf(resp) ==
    CASE resp.send # "ok" -> resp.send
      [] resp.send = "ok" /\ resp.status \in 400..599 -> "HTTPError"
      [] resp.send = "ok" /\ resp.status \notin 400..599 /\ resp.text \notin Bodies
            -> "JSONDecodeError"
      [] OTHER -> "none"

SettingsOf(client) ==
    [part_api_key |-> client.part_api_key, order_api_key |-> client.order_api_key,
     api_base_url |-> client.base_url, timeout |-> client.timeout,
     debug |-> client.debug]

(* C6: the client is constructed at most once, on first use, from the       *)
(* configuration of that moment; it is never torn down or rebuilt, and      *)
(* every later request uses the keys, base URL and timeout it was           *)
(* constructed with, whatever the configuration has become since.           *)
C6_SingletonClient ==
    [][/\ client_instance # None
          => client_instance' # None
             /\ SettingsOf(client_instance') = SettingsOf(client_instance)
       /\ (client_instance = None /\ client_instance' # None)
          => SettingsOf(client_instance') = get_client_config
       /\ (Called /\ client_instance # None)
          => \A i \in 1..Len(sent') :
                /\ sent'[i].url[1] = client_instance.base_url
                /\ sent'[i].timeout = client_instance.timeout
                /\ \A h \in KeysOn(sent'[i]) :
                      sent'[i].headers[h] \in {client_instance.part_api_key,
                                               client_instance.order_api_key}]_vars

\* the second request used the key, base URL and timeout of the client's
\* construction although none of the three is configured any more
C6_Witness ==
    /\ call_count = 2
    /\ sent # <<>>
    /\ environ = <<>>
    /\ sent[1].url[1] = "https://sandbox.example/api"
    /\ sent[1].timeout = 5
    /\ "OrderApi-Key" \in DOMAIN sent[1].headers
    /\ sent[1].headers["OrderApi-Key"] = "order-key"

(* C7: every invocation of a domain operation that passes validation issues *)
(* exactly one upstream request of its own, so n such invocations issue n   *)
(* requests, and what it returns is the answer to that request: calling     *)
(* get_order again with the same order number sends again and returns the   *)
(* new answer, never a remembered one.                                      *)
C7_NoCaching ==
    [][(/\ Called
        /\ invocation'.op \in DomainOperations
        /\ PassesValidation(invocation'))
       => /\ call_count' = call_count + 1
          /\ Len(sent') = 1
          /\ FailureOf(sent'[1].response) = "none"
                => result' = [kind |-> "return", value |-> sent'[1].response.text]
          /\ FailureOf(sent'[1].response) # "none" => result'.kind = "raise"]_vars

\* the second call of get_order returned the second answer
C7_Witness ==
    /\ invocation # None
    /\ invocation.op = "get_order"
    /\ call_count = 2
    /\ Len(sent) = 1
    /\ result = [kind |-> "return", value |-> "json-2"]

(* C8, as claimed: search_by_keyword with a non-empty keyword passes         *)
(* validation for every records in 1..50, and fails it before any network   *)
(* call with "Maximum 50 records per request (API limit)" for records > 50  *)
(* and with "Records must be at least 1" for records < 1.                   *)
RecordsRule ==
    /\ invocation.args.records \in 1..50 => Dispatched
    /\ invocation.args.records > 50
          => RejectedWith("Maximum 50 records per request (API limit)")
    /\ invocation.args.records < 1 => RejectedWith("Records must be at least 1")

C8_RecordsNonEmptyKeyword ==
    (/\ invocation # None
     /\ invocation.op = "search_by_keyword"
     /\ invocation.args.keyword # <<>>)
    => RecordsRule

(* C8, amended: the same for a keyword that is neither empty nor            *)
(* whitespace-only; the two messages are distinct.                          *)
C8_RecordsGivenKeyword ==
    (/\ invocation # None
     /\ invocation.op = "search_by_keyword"
     /\ ~Blank(invocation.args.keyword))
    => RecordsRule

\* records = 50 went out, with a keyword that has whitespace around it
C8_Witness ==
    /\ invocation # None
    /\ invocation.op = "search_by_keyword"
    /\ invocation.args.keyword = <<" ", "a">>
    /\ invocation.args.records = 50
    /\ Dispatched

(* C9: with valid string arguments, update_cart_item accepts every quantity *)
(* >= 0 and rejects every negative one, add_to_cart accepts every quantity  *)
(* >= 1 and rejects every quantity < 1, list_order_history accepts every    *)
(* days >= 1 and rejects every days < 1; a rejection is a ValueError raised *)
(* before any network call.                                                 *)
C9_LowerBounds ==
    (/\ invocation # None
     /\ invocation.op \in {"update_cart_item", "add_to_cart", "list_order_history"}
     /\ \A s \in RequiredStrings(invocation) : ~Blank(s))
    => LET accepted ==
               CASE invocation.op = "update_cart_item" -> invocation.args.quantity >= 0
                 [] invocation.op = "add_to_cart" -> invocation.args.quantity >= 1
                 [] invocation.op = "list_order_history" -> invocation.args.days >= 1
       IN  IF accepted THEN Dispatched ELSE Rejected

\* update_cart_item went out with quantity 0
C9_Witness ==
    /\ invocation # None
    /\ invocation.op = "update_cart_item"
    /\ invocation.args.quantity = 0
    /\ Dispatched

(* C10, as claimed: get_cart with a non-empty cart_key k issues exactly one *)
(* request, a GET to `cart` with the query parameter cartKey = k, without   *)
(* the SearchApi-Key header and, the order key being configured, with the   *)
(* OrderApi-Key header, whatever the request before it was.                 *)
GetCartRequest ==
    /\ Len(sent) = 1
    /\ sent[1].verb = "GET"
    /\ PathOf(sent[1]) = <<"c", "a", "r", "t">>
    /\ sent[1].params = [cartKey |-> invocation.args.cart_key]
    /\ "SearchApi-Key" \notin DOMAIN sent[1].headers
    /\ Truthy(client_instance.order_api_key)
          => /\ "OrderApi-Key" \in DOMAIN sent[1].headers
             /\ sent[1].headers["OrderApi-Key"] = client_instance.order_api_key

C10_GetCartNonEmptyKey ==
    (/\ invocation # None
     /\ invocation.op = "get_cart"
     /\ invocation.args.cart_key # <<>>)
    => GetCartRequest

(* C10, amended: the same for a cart_key that is neither empty nor          *)
(* whitespace-only.                                                         *)
C10_GetCartGivenKey ==
    (/\ invocation # None
     /\ invocation.op = "get_cart"
     /\ ~Blank(invocation.args.cart_key))
    => GetCartRequest

\* get_cart was the second request and went out with the order key
C10_Witness ==
    /\ invocation # None
    /\ invocation.op = "get_cart"
    /\ call_count = 2
    /\ Len(sent) = 1
    /\ KeysOn(sent[1]) = {"OrderApi-Key"}

-----------------------------------------------------------------------------
(* C11: add_to_cart with a cart key and a part number that pass validation   *)
(* and a quantity >= 1 issues exactly one request, a POST to                 *)
(* `cart/items/insert` whose body is CartKey = cart_key and CartItems = a    *)
(* list of exactly one item, with MouserPartNumber = mouser_part_number,     *)
(* Quantity = quantity and CustomerPartNumber = customer_part_number, which  *)
(* is the empty string when the argument is not given.                       *)
C11_AddToCartBody ==
    (/\ invocation # None
     /\ invocation.op = "add_to_cart"
     /\ PassesValidation(invocation))
    => /\ Len(sent) = 1
       /\ sent[1].verb = "POST"
       /\ PathOf(sent[1]) = <<"c", "a", "r", "t", "/", "i", "t", "e", "m", "s", "/",
                              "i", "n", "s", "e", "r", "t">>
       /\ DOMAIN sent[1].json = {"CartKey", "CartItems"}
       /\ sent[1].json.CartKey = invocation.args.cart_key
       /\ Len(sent[1].json.CartItems) = 1
       /\ sent[1].json.CartItems[1] =
             [MouserPartNumber |-> invocation.args.mouser_part_number,
              Quantity |-> invocation.args.quantity,
              CustomerPartNumber |-> invocation.args.customer_part_number]

\* an item went out with the customer's reference, after an earlier request
C11_Witness ==
    /\ invocation # None
    /\ invocation.op = "add_to_cart"
    /\ invocation.args.customer_part_number = <<"a">>
    /\ invocation.args.quantity = 1
    /\ call_count = 2
    /\ Len(sent) = 1
    /\ sent[1].json.CartItems[1].CustomerPartNumber = <<"a">>

\* an item went out with no reference given: the reference sent is empty
C11_WitnessDefault ==
    /\ invocation # None
    /\ invocation.op = "add_to_cart"
    /\ invocation.args.customer_part_number = <<>>
    /\ Len(sent) = 1
    /\ sent[1].json.CartItems[1].CustomerPartNumber = <<>>

-----------------------------------------------------------------------------
\* the verb and the path of each domain operation, as the table lists them
DispatchTable(op) ==
    CASE op = "search_by_keyword" ->
            [verb |-> "POST",
             path |-> <<"s", "e", "a", "r", "c", "h", "/",
                        "k", "e", "y", "w", "o", "r", "d">>]
      [] op = "search_by_part_number" ->
            [verb |-> "POST",
             path |-> <<"s", "e", "a", "r", "c", "h", "/",
                        "p", "a", "r", "t", "n", "u", "m", "b", "e", "r">>]
      [] op = "get_cart" ->
            [verb |-> "GET", path |-> <<"c", "a", "r", "t">>]
      [] op = "add_to_cart" ->
            [verb |-> "POST",
             path |-> <<"c", "a", "r", "t", "/", "i", "t", "e", "m", "s", "/",
                        "i", "n", "s", "e", "r", "t">>]
      [] op = "update_cart_item" ->
            [verb |-> "POST",
             path |-> <<"c", "a", "r", "t", "/", "i", "t", "e", "m", "s", "/",
                        "u", "p", "d", "a", "t", "e">>]
      [] op = "get_order_options" ->
            [verb |-> "POST",
             path |-> <<"o", "r", "d", "e", "r", "/", "o", "p", "t", "i", "o", "n", "s",
                        "/", "q", "u", "e", "r", "y">>]
      [] op = "get_order" ->
            [verb |-> "POST", path |-> <<"o", "r", "d", "e", "r", "/", "g", "e", "t">>]
      [] op = "list_order_history" ->
            [verb |-> "POST",
             path |-> <<"o", "r", "d", "e", "r", "h", "i", "s", "t", "o", "r", "y",
                        "/", "q", "u", "e", "r", "y">>]

(* C16: each domain operation dispatches to one fixed verb and path, the    *)
(* same for all its arguments: search_by_keyword POST search/keyword,       *)
(* search_by_part_number POST search/partnumber, get_cart GET cart,         *)
(* add_to_cart POST cart/items/insert, update_cart_item POST                *)
(* cart/items/update, get_order_options POST order/options/query, get_order *)
(* POST order/get, list_order_history POST orderhistory/query; no domain    *)
(* operation issues a PUT or a DELETE, and each invocation that passes      *)
(* validation issues exactly one request.                                   *)
C16_FixedVerbAndPath ==
    (/\ invocation # None
     /\ invocation.op \in DomainOperations)
    => /\ \A i \in 1..Len(sent) :
             /\ sent[i].verb = DispatchTable(invocation.op).verb
             /\ PathOf(sent[i]) = DispatchTable(invocation.op).path
             /\ sent[i].verb \notin {"PUT", "DELETE"}
       /\ PassesValidation(invocation) => Len(sent) = 1

\* get_cart went out as GET cart with a key of MaxLen characters
C16_Witness ==
    /\ invocation # None
    /\ invocation.op = "get_cart"
    /\ Len(invocation.args.cart_key) = MaxLen
    /\ Len(sent) = 1
    /\ sent[1].verb = "GET"
    /\ PathOf(sent[1]) = <<"c", "a", "r", "t">>

-----------------------------------------------------------------------------
(* C12: invoking health_check, in any state and any number of times, issues  *)
(* no HTTP request, does not construct the singleton client and does not     *)
(* change the authentication headers of the session.                         *)
C12_HealthCheckFrame ==
    [][(Called /\ invocation'.op = "health_check")
       => /\ sent' = <<>>
          /\ call_count' = call_count
          /\ client_instance' = client_instance
          /\ environ' = environ]_vars

\* the health check ran before any request: there is still no client
C12_WitnessNoClient ==
    /\ invocation # None
    /\ invocation.op = "health_check"
    /\ client_instance = None
    /\ result.value.order_api_configured

\* the health check ran after a request: the session still holds that
\* request's key header and no other request was made
C12_Witness ==
    /\ invocation # None
    /\ invocation.op = "health_check"
    /\ client_instance # None
    /\ call_count = 1
    /\ KeysOn(client_instance) = {"SearchApi-Key"}
    /\ sent = <<>>

-----------------------------------------------------------------------------
\* the configurations the status resource and the health check can read
Configurations ==
    [part_api_key : {""} \cup StatusEnvValues.MOUSER_PART_API_KEY,
     order_api_key : {""} \cup StatusEnvValues.MOUSER_ORDER_API_KEY,
     api_base_url : {"https://api.mouser.com/api/v1"}
                        \cup StatusEnvValues.MOUSER_API_BASE_URL,
     timeout : {30, 5},
     debug : BOOLEAN]

\* two configurations that differ at most in the values of non-empty keys
SameButKeyValues(c, d) ==
    /\ (c.part_api_key = "") = (d.part_api_key = "")
    /\ (c.order_api_key = "") = (d.order_api_key = "")
    /\ c.api_base_url = d.api_base_url
    /\ c.timeout = d.timeout
    /\ c.debug = d.debug

\* the non-empty keys of a configuration
KeyValuesOf(c) == {c.part_api_key, c.order_api_key} \ {""}

(* C13: the status resource and the health check report whether each API    *)
(* key is configured and never its value: what get_server_status and        *)
(* health_check return is what they return in every configuration that      *)
(* differs only in the values of non-empty keys, and no part of what they   *)
(* return is a key.                                                         *)
C13_KeyValuesHidden ==
    [][(Called /\ invocation'.op \in {"health_check", "get_server_status"})
       => /\ get_client_config \in Configurations
          /\ \A other \in Configurations :
                SameButKeyValues(other, get_client_config)
                => result'.value = IF invocation'.op = "health_check"
                                   THEN health_check_return(other)
                                   ELSE get_server_status_return(other)
          /\ invocation'.op = "get_server_status"
                => \A i \in 1..Len(result'.value) :
                      result'.value[i] \notin KeyValuesOf(get_client_config)
          /\ invocation'.op = "health_check"
                => \A f \in {"status", "server", "version", "base_url"} :
                      result'.value[f] \notin KeyValuesOf(get_client_config)]_vars

\* the status was read with the second part key set and no order key
C13_Witness ==
    /\ invocation # None
    /\ invocation.op = "get_server_status"
    /\ "MOUSER_PART_API_KEY" \in DOMAIN environ
    /\ environ["MOUSER_PART_API_KEY"] = "part-key-2"
    /\ "MOUSER_ORDER_API_KEY" \notin DOMAIN environ
    /\ result.value[5] = "(+) Configured"
    /\ result.value[7] = "(-) Not configured"

-----------------------------------------------------------------------------
(* C17: the status resource reports the effective base URL and timeout:     *)
(* whenever get_server_status or health_check returns, also after the       *)
(* client has been constructed and the configuration has then changed, the  *)
(* base URL they report, and the timeout get_server_status reports, are the *)
(* ones the client uses for its requests.                                   *)
C17_StatusReportsEffective ==
    [][(Called /\ invocation'.op \in {"health_check", "get_server_status"})
       => LET effective == IF client_instance # None
                           THEN SettingsOf(client_instance)
                           ELSE get_client_config
          IN  IF invocation'.op = "health_check"
              THEN result'.value.base_url = effective.api_base_url
              ELSE /\ result'.value[3] = effective.api_base_url
                   /\ result'.value[9] = str(effective.timeout)]_vars

-----------------------------------------------------------------------------
(* Concurrent calls of the client, as the properties state them *)

\* the key headers among some headers, with their values
KeyHeadersOf(headers) == [h \in DOMAIN headers \cap KeyHeaders |-> headers[h]]

\* the key header a call of the client selects for an endpoint by itself:
\* the search key for an endpoint with `/search/` in it, the order key for
\* any other, and no header when that key is empty
SelectedFor(client, endpoint) ==
    LET search == Contains(<<"/", "s", "e", "a", "r", "c", "h", "/">>, endpoint)
        header == IF search THEN "SearchApi-Key" ELSE "OrderApi-Key"
        key == IF search THEN client.part_api_key ELSE client.order_api_key
    IN  [h \in IF key # "" THEN {header} ELSE {} |-> key]

\* a task whose request has gone out
HasSent(t) == tasks[t].pc \in {"await", "done"}

\* the request of task t went out with other key headers than its call selects
Missent(t) ==
    /\ HasSent(t)
    /\ KeyHeadersOf(tasks[t].request.headers)
          # SelectedFor(client_instance, tasks[t].endpoint)

(* C14: when two calls of the same client run in threads that are preempted *)
(* between the statements of _set_api_key_header and the dispatch, one for  *)
(* a search path and one for a cart or order path, with both keys           *)
(* configured, an interleaving is reachable in which a request goes out     *)
(* with the wrong key header or with none (C14_Witness); and this happens   *)
(* only by interleaving: a request goes out with other key headers than its *)
(* own call selects only if the other call has by then executed a statement *)
(* of its own header selection.                                             *)
C14_MissentOnlyByInterleaving ==
    \A t \in Tasks :
        Missent(t) => \E u \in Tasks \ {t} : tasks[u].pc \notin {"idle", "pop_search"}

\* a cart request went out with no key header, beside a search call, although
\* both keys are configured
C14_Witness ==
    \E t \in Tasks : \E u \in Tasks \ {t} :
        /\ HasSent(t)
        /\ tasks[t].endpoint = CART
        /\ tasks[u].pc # "idle"
        /\ tasks[u].endpoint = SEARCH_KEYWORD
        /\ Truthy(client_instance.part_api_key)
        /\ Truthy(client_instance.order_api_key)
        /\ KeysOn(tasks[t].request) = {}

\* a cart request went out with the search key and without the order key
C14_WitnessWrongKey ==
    \E t \in Tasks : \E u \in Tasks \ {t} :
        /\ HasSent(t)
        /\ tasks[t].endpoint = CART
        /\ tasks[u].pc # "idle"
        /\ Truthy(client_instance.part_api_key)
        /\ Truthy(client_instance.order_api_key)
        /\ KeysOn(tasks[t].request) = {"SearchApi-Key"}

-----------------------------------------------------------------------------
(* C15: with the tools run as cooperative tasks that can be suspended at    *)
(* the network call only, no step of another task and no second             *)
(* construction of the client comes between a call's header selection and   *)
(* the dispatch of its request: no task is ever found between the two, the  *)
(* settings of the client never change once it exists, and in every         *)
(* interleaving each request goes out, and is answered, with exactly the    *)
(* key header its own call selected.                                        *)
C15_DispatchedAsSelected ==
    [][/\ \A t \in Tasks :
             /\ tasks'[t].pc \notin Selecting
             /\ (tasks[t].pc # "await" /\ tasks'[t].pc = "await")
                => /\ tasks'[t].request.headers = client_instance'.headers
                   /\ KeyHeadersOf(tasks'[t].request.headers)
                         = SelectedFor(client_instance', tasks'[t].endpoint)
       /\ client_instance # None
             => SettingsOf(client_instance') = SettingsOf(client_instance)
       /\ (Called /\ sent' # <<>>)
             => KeyHeadersOf(sent'[1].headers)
                   = SelectedFor(client_instance', EndpointOf(invocation'))]_vars

\* two requests are in flight at once, one with each key header
C15_Witness ==
    /\ tasks["task-1"].pc = "await"
    /\ tasks["task-2"].pc = "await"
    /\ tasks["task-1"].op = "get_cart"
    /\ KeysOn(tasks["task-1"].request) = {"OrderApi-Key"}
    /\ KeysOn(tasks["task-2"].request) = {"SearchApi-Key"}
    /\ KeysOn(client_instance) = {"SearchApi-Key"}

-----------------------------------------------------------------------------
(* C18: in every state of the session, those inside _set_api_key_header and *)
(* those between calls included, the session holds at most one of the       *)
(* headers SearchApi-Key and OrderApi-Key; it holds none until the first    *)
(* call has selected its header; and once a call has selected, through its  *)
(* request and until the next call, the session holds the header selected   *)
(* for that call's path, if any, and no other.                              *)
C18_SessionKeyHeaders ==
    client_instance # None
    => /\ Cardinality(KeysOn(client_instance)) <= 1
       /\ (call_count = 0 /\ tasks[Caller].pc \notin {"send", "await", "done"})
             => KeysOn(client_instance) = {}
       /\ tasks[Caller].pc \in {"send", "await", "done"}
             => KeyHeadersOf(client_instance.headers)
                   = SelectedFor(client_instance, tasks[Caller].endpoint)

\* inside _set_api_key_header of the second call, after the first pop: the
\* session still holds the order key of the request before
C18_Witness ==
    /\ client_instance # None
    /\ call_count = 1
    /\ tasks[Caller].pc = "pop_order"
    /\ KeysOn(client_instance) = {"OrderApi-Key"}

\* between the calls: the search key of the last request stays on the session
C18_WitnessBetweenCalls ==
    /\ client_instance # None
    /\ call_count = 2
    /\ tasks[Caller].pc = "done"
    /\ KeysOn(client_instance) = {"SearchApi-Key"}

====
